---- MODULE Spec2Model ----
(***************************************************************************)
(* Model of scripts/migrate-workos.ts: the WorkOS -> BetterAuth migration  *)
(* run.  migrateFromWorkOS() first awaits migrateOrganizations(ctx), which *)
(* pages through the source organizations and builds orgMap, then pages    *)
(* through the source users and, per user, issues the destination creates. *)
(* The program is sequential (every call is awaited), so the state machine *)
(* has one program counter, pc.  The source API and the destination        *)
(* adapter are the environment: each call either throws or returns, and    *)
(* what it returns is drawn from bounded sets.                             *)
(***************************************************************************)
EXTENDS Integers, Sequences, FiniteSets

\* ---------------------------------------------------------------- bounds
\* Page size requested from the source.  The script uses 100 (const limit);
\* the model scales it down so that full pages can be enumerated.
limit == 2
\* Size of the largest source: its organizations, its users, its longest
\* auth-factor list and its longest membership list together.
MaxSource == 4
\* A loop that has fetched this many records requests no further page (the
\* counters totalOrgs and totalUsers are unbounded in the script).
MaxFetched == 5

\* ------------------------------------------------------------- constants
\* Array.from({ length: 10 }): the number of backup codes of one record.
BackupCodeCount == 10
\* listMetadata.before is a token or null; `before` starts undefined.
Null == 0
Undefined == -1

VARIABLES
    \* the source: organizations 1..nOrgs, users 1..nUsers, and the lengths of
    \* the longest auth-factor list and membership list it returns for a user
    nOrgs, nUsers, maxFactors, maxMemberships,
    pc,                     \* position of the run
    \* locals of migrateOrganizations
    totalOrgs, migratedOrgs, failedOrgs, orgMap, hasMoreOrgs, beforeOrgs, orgs, oi,
    \* locals of migrateFromWorkOS
    totalUsers, migratedUsers, failedUsers, hasMoreUsers, before, workosUsers, ui,
    \* locals of one iteration of the user loop: the auth factors, the created
    \* user's id, the length of the membership list, the index and the element
    \* of the membership in hand, the number of factors the 2FA loop has handled
    authFactors, createdUser, memberships, mi, membership, fi,
    \* the exception of the last step and the catch clause that took it
    error, caught,
    \* the destination: the adapter.create call of the last step (if it made one),
    \* the records created for the user whose iteration ran last, and per source id
    \* the number of create calls
    lastReq, created, orgReq, userReq,
    \* list responses received by each phase
    orgPages, userPages,
    \* the summary printed at the end
    summary

orgLocals == <<totalOrgs, migratedOrgs, failedOrgs, hasMoreOrgs, beforeOrgs, orgs, oi>>
userCounters == <<totalUsers, migratedUsers, failedUsers>>
pageVars == <<hasMoreUsers, before, workosUsers>>
iterLocals == <<authFactors, createdUser, memberships, mi, membership, fi>>
srcVars == <<nOrgs, nUsers, maxFactors, maxMemberships>>
vars == <<nOrgs, nUsers, maxFactors, maxMemberships, pc, totalOrgs, migratedOrgs, failedOrgs, orgMap, hasMoreOrgs,
          beforeOrgs, orgs, oi, totalUsers, migratedUsers, failedUsers, hasMoreUsers,
          before, workosUsers, ui, authFactors, createdUser, memberships, mi, membership,
          fi, error, caught, lastReq, created, orgReq, userReq, orgPages, userPages,
          summary>>

\* ------------------------------------------------------------ data types
OrgIds == 1..nOrgs
UserIds == 1..nUsers
NoUser == 0
NoReq == [model |-> "none"]
NoSummary == [emitted |-> FALSE]

\* What `created` keeps of a created record: its model, or for an account its type.
Rec(data) == IF data.model = "account" THEN data.type ELSE data.model

\* WorkOSAuthFactor: its type and whether its <type>_configuration is present.
\* sms_configuration only carries the phone number, which no branch reads, so an
\* sms factor is modelled with it.
FactorKinds == {f \in [type : {"totp", "sms", "email"}, cfg : BOOLEAN] :
                  f.type = "sms" => f.cfg}
SeqsUpTo(S, n) == UNION {[1..k -> S] : k \in 0..n}
AuthFactorLists == SeqsUpTo(FactorKinds, maxFactors)

\* An organization membership: the organization it names and its role, which is
\* absent, or an object whose slug is empty or set.
Roles == {[defined |-> FALSE, slug |-> ""], [defined |-> TRUE, slug |-> ""],
          [defined |-> TRUE, slug |-> "admin"]}
Memberships == [organizationId : OrgIds, role : Roles]
NoMembership == [organizationId |-> 0, role |-> [defined |-> FALSE, slug |-> ""]]

\* --------------------------------------------------------------- helpers
\* The source's answer to a list request: the records after the cursor, at most
\* `lim` of them; a request without cursor starts at the first record.
Page(n, cursor, lim) ==
    LET off == IF cursor = Undefined THEN 0 ELSE cursor
        last == IF off + lim < n THEN off + lim ELSE n
    IN  [i \in 1..(IF last > off THEN last - off ELSE 0) |-> off + i]

\* listMetadata.before of that answer: null, or the token of the next page.
Cursors(n, cursor, lim) ==
    LET off == IF cursor = Undefined THEN 0 ELSE cursor
        len == Len(Page(n, cursor, lim))
    IN  {Null} \cup (IF len > 0 THEN {off + len} ELSE {})

\* response.listMetadata?.before || undefined
OrUndefined(c) == IF c = Null THEN Undefined ELSE c

\* Faulty variant: only a configured TOTP factor enables two-factor
twoFactorEnabledConfigured(fs) == \E i \in 1..Len(fs) : fs[i].type = "totp" /\ fs[i].cfg

\* authFactors.some(f => f.type === "totp")
twoFactorEnabled(fs) == \E i \in 1..Len(fs) : fs[i].type = "totp"

\* !!authFactors.find(f => f.type === "sms")
phoneNumberVerified(fs) == \E i \in 1..Len(fs) : fs[i].type = "sms"

\* authFactors.find(f => f.type === "email" && f.email_configuration): its index, 0 if none
emailFactor(fs) ==
    LET hits == {i \in 1..Len(fs) : fs[i].type = "email" /\ fs[i].cfg}
    IN  IF hits = {} THEN 0 ELSE CHOOSE i \in hits : \A j \in hits : i <= j

\* Faulty variant: the configuration is not looked at
TwoFactorGuardTypeOnly(f) == f.type = "totp"

\* factor.type === "totp" && factor.totp_configuration
TwoFactorGuard(f) == f.type = "totp" /\ f.cfg

\* factor.totp_configuration.secret: the i-th factor's secret is named i
TotpSecret(i) == i

\* generateBackupCodes(secret): BackupCodeCount codes, encrypted under the secret
generateBackupCodes(secret) == [count |-> BackupCodeCount, key |-> secret]

\* orgMap.get(id): undefined (0) when id is not a key
OrgMapGet(id) == IF id \in DOMAIN orgMap THEN orgMap[id] ELSE 0

\* Faulty variant: the lookup result is not tested
MemberOrgGuardAlways(orgId) == orgId = orgId

\* if (orgId)
MemberOrgGuard(orgId) == orgId # 0

\* orgMap.set(k, v)
OrgMapSet(m, k, v) == [x \in DOMAIN m \cup {k} |-> IF x = k THEN v ELSE m[x]]

\* membership.role.slug || "member"   (evaluated only when role is an object)
MemberRole(role) == IF role.slug = "" THEN "member" ELSE role.slug

\* adapter.create(...) with forceAllowId: the created record keeps the given id
CreatedId(data) == data.id

\* ------------------------------------------------------------------ Init
Init ==
    /\ nOrgs \in 0..MaxSource
    /\ nUsers \in 0..MaxSource
    /\ maxFactors \in 0..MaxSource
    /\ maxMemberships \in 0..MaxSource
    /\ nOrgs + nUsers + maxFactors + maxMemberships <= MaxSource
    /\ pc = "listOrganizations"
    /\ totalOrgs = 0 /\ migratedOrgs = 0 /\ failedOrgs = 0
    /\ orgMap = [k \in {} |-> 0]
    /\ hasMoreOrgs = TRUE /\ beforeOrgs = Undefined /\ orgs = <<>> /\ oi = 0
    /\ totalUsers = 0 /\ migratedUsers = 0 /\ failedUsers = 0
    /\ hasMoreUsers = TRUE /\ before = Undefined /\ workosUsers = <<>> /\ ui = 0
    /\ authFactors = <<>> /\ createdUser = NoUser /\ memberships = 0
    /\ mi = 0 /\ membership = NoMembership /\ fi = 0
    /\ error = "none" /\ caught = "none"
    /\ lastReq = NoReq /\ created = <<>>
    /\ orgReq = [i \in OrgIds |-> 0] /\ userReq = [i \in UserIds |-> 0]
    /\ orgPages = 0 /\ userPages = 0
    /\ summary = NoSummary

\* ---------------------------------------------------- organization phase
userVarsAll == <<totalUsers, migratedUsers, failedUsers, hasMoreUsers, before,
                 workosUsers, ui, authFactors, createdUser, memberships, mi,
                 membership, fi, created, userReq, userPages, summary>>

\* Faulty variant: the fetch is tried again instead of ending the phase
OrgPageRetry ==
    /\ pc' = "listOrganizations"
    /\ error' = "Api" /\ caught' = "orgPage"
    /\ UNCHANGED <<orgLocals, orgMap, orgPages>>

\* catch (error) { console.error("Failed to fetch organizations:"); break; }
OrgPageCatch ==
    /\ pc' = "orgReturn"
    /\ error' = "Api" /\ caught' = "orgPage"
    /\ UNCHANGED <<orgLocals, orgMap, orgPages>>

\* One pass of `while (hasMoreOrgs)` up to the inner loop: the list request.
ListOrganizations ==
    /\ pc = "listOrganizations"
    /\ totalOrgs < MaxFetched
    /\ \/ OrgPageCatch
       \/ \E cur \in Cursors(nOrgs, beforeOrgs, limit) :
            LET data == Page(nOrgs, beforeOrgs, limit) IN
            /\ orgPages' = orgPages + 1
            /\ orgs' = data
            /\ beforeOrgs' = OrUndefined(cur)
            /\ hasMoreOrgs' = (Len(data) = limit)
            /\ totalOrgs' = totalOrgs + Len(data)
            /\ oi' = IF Len(data) > 0 THEN 1 ELSE 0
            /\ pc' = IF Len(data) > 0 THEN "createOrganization"
                     ELSE IF Len(data) = limit THEN "listOrganizations"
                     ELSE "orgReturn"
            /\ error' = "none" /\ caught' = "none"
            /\ UNCHANGED <<migratedOrgs, failedOrgs, orgMap>>
    /\ lastReq' = NoReq
    /\ UNCHANGED <<srcVars, userVarsAll, orgReq>>

\* End of one iteration of `for (const org of orgs)`.
AdvanceOrg ==
    IF oi < Len(orgs)
    THEN oi' = oi + 1 /\ pc' = "createOrganization"
    ELSE oi' = oi /\ pc' = IF hasMoreOrgs THEN "listOrganizations" ELSE "orgReturn"

\* Faulty variant: the mapping is written although the create threw
OrgCreateCatchSetsMap ==
    /\ failedOrgs' = failedOrgs + 1
    /\ error' = "Adapter" /\ caught' = "org"
    /\ orgMap' = OrgMapSet(orgMap, orgs[oi], orgs[oi])
    /\ UNCHANGED migratedOrgs

\* catch (error) { console.error(`Failed to migrate organization ...`); failedOrgs++; }
OrgCreateCatch ==
    /\ failedOrgs' = failedOrgs + 1
    /\ error' = "Adapter" /\ caught' = "org"
    /\ UNCHANGED <<orgMap, migratedOrgs>>

\* The body of the organization loop: the destination create and its catch.
CreateOrganization ==
    /\ pc = "createOrganization"
    /\ LET org == orgs[oi]
           data == [model |-> "organization", id |-> org, forceAllowId |-> TRUE]
       IN  /\ lastReq' = data
           /\ orgReq' = [orgReq EXCEPT ![org] = @ + 1]
           /\ \/ /\ orgMap' = OrgMapSet(orgMap, org, CreatedId(data))
                 /\ migratedOrgs' = migratedOrgs + 1
                 /\ error' = "none" /\ caught' = "none"
                 /\ UNCHANGED failedOrgs
              \/ OrgCreateCatch
    /\ AdvanceOrg
    /\ UNCHANGED <<srcVars, userVarsAll, orgPages, totalOrgs, hasMoreOrgs, beforeOrgs,
                   orgs>>

\* return orgMap: the locals of migrateOrganizations go out of scope.
OrgReturn ==
    /\ pc = "orgReturn"
    /\ pc' = "listUsers"
    /\ totalOrgs' = 0 /\ migratedOrgs' = 0 /\ failedOrgs' = 0
    /\ hasMoreOrgs' = TRUE /\ beforeOrgs' = Undefined /\ orgs' = <<>> /\ oi' = 0
    /\ error' = "none" /\ caught' = "none"
    /\ lastReq' = NoReq /\ orgPages' = 0
    /\ UNCHANGED <<srcVars, orgMap, userVarsAll, orgReq>>

\* ------------------------------------------------------------ user phase
orgVarsAll == <<totalOrgs, migratedOrgs, failedOrgs, orgMap, hasMoreOrgs, beforeOrgs,
                orgs, oi, orgReq, orgPages>>

\* catch (error) { console.error("Failed to fetch users:"); break; }
UserPageCatch ==
    /\ pc' = "summary"
    /\ error' = "Api" /\ caught' = "userPage"
    /\ UNCHANGED <<userCounters, pageVars, ui, userPages>>

\* One pass of `while (hasMoreUsers)` up to the inner loop: the list request.
ListUsers ==
    /\ pc = "listUsers"
    /\ totalUsers < MaxFetched
    /\ \/ UserPageCatch
       \/ \E cur \in Cursors(nUsers, before, limit) :
            LET data == Page(nUsers, before, limit) IN
            /\ userPages' = userPages + 1
            /\ workosUsers' = data
            /\ before' = OrUndefined(cur)
            /\ hasMoreUsers' = (Len(data) = limit)
            /\ totalUsers' = totalUsers + Len(data)
            /\ ui' = IF Len(data) > 0 THEN 1 ELSE 0
            /\ pc' = IF Len(data) > 0 THEN "listAuthFactors"
                     ELSE IF Len(data) = limit THEN "listUsers"
                     ELSE "summary"
            /\ error' = "none" /\ caught' = "none"
            /\ UNCHANGED <<migratedUsers, failedUsers>>
    /\ lastReq' = NoReq /\ created' = <<>>
    /\ UNCHANGED <<srcVars, orgVarsAll, iterLocals, userReq, summary>>

\* End of one iteration of `for (const workosUser of workosUsers)`: the next user
\* of the page, else the next page, else the summary.  The iteration's locals go
\* out of scope.
AdvanceUser ==
    /\ IF ui < Len(workosUsers)
       THEN ui' = ui + 1 /\ pc' = "listAuthFactors"
       ELSE ui' = ui /\ pc' = IF hasMoreUsers THEN "listUsers" ELSE "summary"
    /\ authFactors' = <<>> /\ createdUser' = NoUser /\ memberships' = 0
    /\ mi' = 0 /\ membership' = NoMembership /\ fi' = 0

\* Faulty variant: the failure is counted but the rest of the page is given up
UserCatchAbortsPage(kind) ==
    /\ failedUsers' = failedUsers + 1
    /\ UNCHANGED <<totalUsers, migratedUsers>>
    /\ error' = kind /\ caught' = "user"
    /\ ui' = Len(workosUsers)
    /\ pc' = IF hasMoreUsers THEN "listUsers" ELSE "summary"
    /\ authFactors' = <<>> /\ createdUser' = NoUser /\ memberships' = 0
    /\ mi' = 0 /\ membership' = NoMembership /\ fi' = 0

\* The user boundary:
\* catch (error) { console.error(`Failed to migrate user ...`); failedUsers++; }
UserCatch(kind) ==
    /\ failedUsers' = failedUsers + 1
    /\ UNCHANGED <<totalUsers, migratedUsers>>
    /\ error' = kind /\ caught' = "user"
    /\ AdvanceUser

\* A step that stays inside the current user's try block.
Continue(to) ==
    /\ pc' = to /\ ui' = ui
    /\ UNCHANGED userCounters
    /\ error' = "none" /\ caught' = "none"

\* workos.userManagement.listAuthFactors({ userId })
ListAuthFactors ==
    /\ pc = "listAuthFactors"
    /\ lastReq' = NoReq /\ created' = <<>>
    /\ \/ UserCatch("Api")
       \/ \E fs \in AuthFactorLists :
            /\ authFactors' = fs
            /\ Continue("createUser")
            /\ UNCHANGED <<createdUser, memberships, mi, membership, fi>>
    /\ UNCHANGED <<srcVars, orgVarsAll, pageVars, userReq, userPages, summary>>

\* Faulty variant: the id is left to the destination
UserDataGeneratedId(u, fs) ==
    [model |-> "user", id |-> NoUser,
     twoFactorEnabled |-> twoFactorEnabled(fs),
     phoneNumberVerified |-> phoneNumberVerified(fs),
     forceAllowId |-> FALSE]

\* { model: "user", data: { id: workosUser.id, ... }, forceAllowId: true }
UserData(u, fs) ==
    [model |-> "user", id |-> u,
     twoFactorEnabled |-> twoFactorEnabled(fs),
     phoneNumberVerified |-> phoneNumberVerified(fs),
     forceAllowId |-> TRUE]

\* ctx.adapter.create({ model: "user", ... })
CreateUser ==
    /\ pc = "createUser"
    /\ LET u == workosUsers[ui]
           data == UserData(u, authFactors)
       IN  /\ lastReq' = data
           /\ userReq' = [userReq EXCEPT ![u] = @ + 1]
           /\ \/ /\ UserCatch("Adapter")
                 /\ UNCHANGED created
              \/ /\ createdUser' = CreatedId(data)
                 /\ created' = Append(created, Rec(data))
                 /\ Continue("credentials")
                 /\ UNCHANGED <<authFactors, memberships, mi, membership, fi>>
    /\ UNCHANGED <<srcVars, orgVarsAll, pageVars, userPages, summary>>

\* Faulty variant: a failed credentials create takes the user record back
CredentialsAccountRollsBack ==
    /\ pc = "credentials"
    /\ IF emailFactor(authFactors) # 0
       THEN LET data == [model |-> "account", userId |-> createdUser,
                         type |-> "credentials",
                         providerAccountId |-> workosUsers[ui],
                         forceAllowId |-> TRUE]
            IN  /\ lastReq' = data
                /\ \/ /\ UserCatch("Adapter")
                      /\ created' = <<>>
                   \/ /\ created' = Append(created, Rec(data))
                      /\ Continue("oauth")
                      /\ UNCHANGED iterLocals
       ELSE /\ Continue("oauth")
            /\ lastReq' = NoReq
            /\ UNCHANGED <<iterLocals, created>>
    /\ UNCHANGED <<srcVars, orgVarsAll, pageVars, userReq, userPages, summary>>

\* if (emailFactor) { await ctx.adapter.create({ model: "account", ... credentials }) }
\* This create is not inside a try of its own: a throw reaches the user boundary.
CredentialsAccount ==
    /\ pc = "credentials"
    /\ IF emailFactor(authFactors) # 0
       THEN LET data == [model |-> "account", userId |-> createdUser,
                         type |-> "credentials",
                         providerAccountId |-> workosUsers[ui],
                         forceAllowId |-> TRUE]
            IN  /\ lastReq' = data
                /\ \/ /\ UserCatch("Adapter")
                      /\ UNCHANGED created
                   \/ /\ created' = Append(created, Rec(data))
                      /\ Continue("oauth")
                      /\ UNCHANGED iterLocals
       ELSE /\ Continue("oauth")
            /\ lastReq' = NoReq
            /\ UNCHANGED <<iterLocals, created>>
    /\ UNCHANGED <<srcVars, orgVarsAll, pageVars, userReq, userPages, summary>>

\* catch (error) { console.warn(`No OAuth connection found ...`) }
OAuthCatch(kind) ==
    /\ pc' = "listMemberships" /\ ui' = ui
    /\ UNCHANGED userCounters
    /\ error' = kind /\ caught' = "oauth"

\* try { connection = await workos.sso.getConnection(id); if (connection) create }
OAuthAccount ==
    /\ pc = "oauth"
    /\ \/ \* getConnection throws
          /\ OAuthCatch("Api")
          /\ lastReq' = NoReq
          /\ UNCHANGED created
       \/ \* getConnection returns nothing
          /\ Continue("listMemberships")
          /\ lastReq' = NoReq
          /\ UNCHANGED created
       \/ \* getConnection returns a connection
          LET data == [model |-> "account", userId |-> createdUser, type |-> "oauth",
                       forceAllowId |-> TRUE]
          IN  /\ lastReq' = data
              /\ \/ /\ OAuthCatch("Adapter")
                    /\ UNCHANGED created
                 \/ /\ created' = Append(created, Rec(data))
                    /\ Continue("listMemberships")
    /\ UNCHANGED <<srcVars, orgVarsAll, pageVars, iterLocals, userReq, userPages,
                   summary>>

\* Faulty variant: a membership failure is counted as a failure of the user
MembershipsCatchCounts(kind) ==
    /\ pc' = "twoFactor" /\ ui' = ui
    /\ failedUsers' = failedUsers + 1
    /\ UNCHANGED <<totalUsers, migratedUsers>>
    /\ error' = kind /\ caught' = "memberships"
    /\ memberships' = 0 /\ mi' = 0 /\ membership' = NoMembership

\* catch (error) { console.warn(`Failed to migrate organization memberships ...`) }
\* membershipsResponse goes out of scope with the try block.
MembershipsCatch(kind) ==
    /\ pc' = "twoFactor" /\ ui' = ui
    /\ UNCHANGED userCounters
    /\ error' = kind /\ caught' = "memberships"
    /\ memberships' = 0 /\ mi' = 0 /\ membership' = NoMembership

\* workos.userManagement.listOrganizationMemberships({ userId }): the response
\* holds `memberships` elements (none when it has no data); the loop reads them
\* one at a time, and `membership` is the one in hand.
ListMemberships ==
    /\ pc = "listMemberships"
    /\ \/ MembershipsCatch("Api")
       \/ /\ memberships' = 0 /\ mi' = 0 /\ membership' = NoMembership
          /\ Continue("twoFactor")
       \/ \E n \in 1..maxMemberships, m \in Memberships :
            /\ memberships' = n /\ mi' = 1 /\ membership' = m
            /\ Continue("member")
    /\ lastReq' = NoReq
    /\ UNCHANGED <<srcVars, orgVarsAll, pageVars, authFactors, createdUser, fi,
                   created, userReq, userPages, summary>>

\* End of one iteration of `for (const membership of membershipsResponse.data)`.
AdvanceMember ==
    IF mi < memberships
    THEN /\ mi' = mi + 1 /\ memberships' = memberships
         /\ membership' \in Memberships
         /\ Continue("member")
    ELSE /\ mi' = 0 /\ memberships' = 0 /\ membership' = NoMembership
         /\ Continue("twoFactor")

\* The body of the membership loop for the membership in hand.
Member ==
    /\ pc = "member"
    /\ LET orgId == OrgMapGet(membership.organizationId) IN
       IF MemberOrgGuard(orgId)
       THEN \/ \* getOrganization throws
               /\ MembershipsCatch("Api")
               /\ lastReq' = NoReq
               /\ UNCHANGED created
            \/ \* membership.role is undefined: reading .slug throws
               /\ ~membership.role.defined
               /\ MembershipsCatch("TypeError")
               /\ lastReq' = NoReq
               /\ UNCHANGED created
            \/ /\ membership.role.defined
               /\ LET data == [model |-> "member", userId |-> createdUser,
                               organizationId |-> orgId,
                               role |-> MemberRole(membership.role),
                               forceAllowId |-> TRUE]
                  IN  /\ lastReq' = data
                      /\ \/ /\ MembershipsCatch("Adapter")
                            /\ UNCHANGED created
                         \/ /\ created' = Append(created, Rec(data))
                            /\ AdvanceMember
       ELSE /\ AdvanceMember
            /\ lastReq' = NoReq
            /\ UNCHANGED created
    /\ UNCHANGED <<srcVars, orgVarsAll, pageVars, authFactors, createdUser, fi,
                   userReq, userPages, summary>>

\* One iteration of `for (const factor of authFactors)`.  The create is not
\* inside a try of its own: a throw reaches the user boundary.
TwoFactor ==
    /\ pc = "twoFactor"
    /\ fi < Len(authFactors)
    /\ LET f == authFactors[fi + 1] IN
       IF TwoFactorGuard(f)
       THEN LET data == [model |-> "twoFactor", userId |-> createdUser,
                         secret |-> TotpSecret(fi + 1),
                         backupCodes |-> generateBackupCodes(TotpSecret(fi + 1)),
                         forceAllowId |-> TRUE]
            IN  /\ lastReq' = data
                /\ \/ /\ UserCatch("Adapter")
                      /\ UNCHANGED created
                   \/ /\ created' = Append(created, Rec(data))
                      /\ fi' = fi + 1
                      /\ Continue("twoFactor")
                      /\ UNCHANGED <<authFactors, createdUser, memberships, mi, membership>>
       ELSE /\ fi' = fi + 1
            /\ Continue("twoFactor")
            /\ lastReq' = NoReq
            /\ UNCHANGED <<authFactors, createdUser, memberships, mi, membership, created>>
    /\ UNCHANGED <<srcVars, orgVarsAll, pageVars, userReq, userPages, summary>>

\* Faulty variant: the migrated user is not counted
FinishUserUncounted ==
    /\ pc = "twoFactor"
    /\ fi = Len(authFactors)
    /\ UNCHANGED <<totalUsers, migratedUsers, failedUsers>>
    /\ error' = "none" /\ caught' = "none"
    /\ AdvanceUser
    /\ lastReq' = NoReq
    /\ UNCHANGED <<srcVars, orgVarsAll, pageVars, created, userReq, userPages,
                   summary>>

\* migratedUsers++ after the last sub-step, then the next user.
FinishUser ==
    /\ pc = "twoFactor"
    /\ fi = Len(authFactors)
    /\ migratedUsers' = migratedUsers + 1
    /\ UNCHANGED <<totalUsers, failedUsers>>
    /\ error' = "none" /\ caught' = "none"
    /\ AdvanceUser
    /\ lastReq' = NoReq
    /\ UNCHANGED <<srcVars, orgVarsAll, pageVars, created, userReq, userPages,
                   summary>>

\* console.log(`Migration Summary: ...`)
Summary ==
    /\ pc = "summary"
    /\ pc' = "done"
    /\ summary' = [emitted |-> TRUE, total |-> totalUsers, migrated |-> migratedUsers,
                   failed |-> failedUsers]
    /\ error' = "none" /\ caught' = "none"
    /\ lastReq' = NoReq /\ created' = <<>>
    /\ UNCHANGED <<srcVars, orgVarsAll, userCounters, pageVars, ui, iterLocals,
                   userReq, userPages>>

Next ==
    \/ ListOrganizations
    \/ CreateOrganization
    \/ OrgReturn
    \/ ListUsers
    \/ ListAuthFactors
    \/ CreateUser
    \/ CredentialsAccount
    \/ OAuthAccount
    \/ ListMemberships
    \/ Member
    \/ TwoFactor
    \/ FinishUser
    \/ Summary

Spec == Init /\ [][Next]_vars

\* ================================================================ claims
OrgPcs == {"listOrganizations", "createOrganization", "orgReturn"}
UserIterPcs == {"listAuthFactors", "createUser", "credentials", "oauth",
                "listMemberships", "member", "twoFactor"}
Count(seq, k) == Cardinality({i \in 1..Len(seq) : seq[i] = k})

\* ---- C1
\* C1: an exception raised while a user is processed is caught at the user
\* boundary (never by the page-level catch): failedUsers grows by exactly 1,
\* migratedUsers and totalUsers stay, and the next user of the same page is
\* processed next; when a page is finished every fetched user has been counted.
C1_UserFailureIsolated ==
    /\ [](pc \in {"listUsers", "summary", "done"}
            => migratedUsers + failedUsers = totalUsers)
    /\ [][/\ (pc \in UserIterPcs => caught' \in {"none", "user", "oauth", "memberships"})
          /\ (pc \in {"listAuthFactors", "createUser"} /\ error' # "none"
                => caught' = "user")
          /\ (caught' = "user"
                => /\ pc \in UserIterPcs
                   /\ failedUsers' = failedUsers + 1
                   /\ migratedUsers' = migratedUsers
                   /\ totalUsers' = totalUsers
                   /\ workosUsers' = workosUsers
                   /\ IF ui < Len(workosUsers)
                      THEN pc' = "listAuthFactors" /\ ui' = ui + 1
                      ELSE pc' = (IF hasMoreUsers THEN "listUsers" ELSE "summary"))
         ]_vars

\* The destination create of the first user of a page threw, the failure was
\* counted once, and the second user of the page is the next to be processed.
C1_Witness ==
    /\ caught = "user" /\ lastReq.model = "user"
    /\ failedUsers = 1 /\ migratedUsers = 0
    /\ pc = "listAuthFactors" /\ ui = 2 /\ Len(workosUsers) = 2

\* ---- C2
\* C2 as stated: once the user record exists, a failing sub-step never aborts the
\* user: no failure is counted and the run stays inside that user's sub-steps.
C2_Original ==
    [][createdUser # NoUser /\ error' # "none"
         => /\ failedUsers' = failedUsers
            /\ pc' \in {"oauth", "listMemberships", "member", "twoFactor"}
            /\ ui' = ui]_vars

\* C2 amended: once the user record exists, a failure of the SSO lookup or the
\* oauth-account create leads on to the membership step, and a failure of the
\* membership listing, the organization lookup or a member create leads on to
\* the two-factor step, both without touching the counters; a failure of the
\* credentials-account create or of a two-factor create is caught at the user
\* boundary: the user's remaining sub-steps are skipped and the user is counted
\* in failedUsers, not in migratedUsers.
C2_Amended ==
    [][createdUser # NoUser /\ error' # "none"
         => \/ /\ pc = "oauth"
               /\ caught' = "oauth" /\ pc' = "listMemberships"
               /\ ui' = ui /\ createdUser' = createdUser
               /\ UNCHANGED userCounters
            \/ /\ pc \in {"listMemberships", "member"}
               /\ caught' = "memberships" /\ pc' = "twoFactor"
               /\ ui' = ui /\ createdUser' = createdUser
               /\ UNCHANGED userCounters
            \/ /\ pc \in {"credentials", "twoFactor"}
               /\ caught' = "user" /\ pc' \notin {"oauth", "listMemberships", "member",
                                                  "twoFactor", "credentials"}
               /\ failedUsers' = failedUsers + 1
               /\ migratedUsers' = migratedUsers]_vars

\* A member create threw after the user record and an oauth account had been
\* created: the user goes on to the two-factor step with no failure counted.
C2_Witness ==
    /\ caught = "memberships" /\ error = "Adapter" /\ lastReq.model = "member"
    /\ pc = "twoFactor" /\ createdUser # NoUser
    /\ failedUsers = 0
    /\ Count(created, "oauth") = 1

\* ---- C3
\* C3: each pagination loop terminates at the first short page, where
\* pages * limit >= total >= (pages - 1) * limit; a source of n records has at
\* most n \div limit full pages, so a loop receives at most n \div limit + 1
\* pages, whatever cursors the source returns.
C3_PaginationTerminates ==
    /\ pc = "orgReturn" /\ caught # "orgPage"
         => /\ orgPages * limit >= totalOrgs
            /\ totalOrgs >= (orgPages - 1) * limit
    /\ pc = "summary" /\ caught # "userPage"
         => /\ userPages * limit >= totalUsers
            /\ totalUsers >= (userPages - 1) * limit
    /\ orgPages <= (nOrgs \div limit) + 1
    /\ userPages <= (nUsers \div limit) + 1

\* The part of C3 that the code keeps: the page arithmetic at the end of a loop,
\* and a full page is always followed by another request or a fetch failure.
C3_PageArithmetic ==
    /\ pc = "orgReturn" /\ caught # "orgPage"
         => /\ orgPages * limit >= totalOrgs
            /\ totalOrgs >= (orgPages - 1) * limit
            /\ Len(orgs) < limit
    /\ pc = "summary" /\ caught # "userPage"
         => /\ userPages * limit >= totalUsers
            /\ totalUsers >= (userPages - 1) * limit
            /\ Len(workosUsers) < limit

\* ---- C4
\* C4: within one run at most one destination create is issued per source user
\* id and per source organization id.
C4_AtMostOneCreate ==
    /\ \A u \in UserIds : userReq[u] <= 1
    /\ \A o \in OrgIds : orgReq[o] <= 1

\* ---- C5
\* C5: a page fetch that throws ends its phase at once, with the counters and the
\* mapping as they were; no list request of that phase follows; the organization
\* phase returns its mapping and the user phase starts, the user phase prints
\* the summary of its counters.
C5_PageFetchFailureEndsPhase ==
    [][/\ (caught' = "orgPage"
             => /\ pc = "listOrganizations" /\ pc' = "orgReturn"
                /\ UNCHANGED <<orgMap, totalOrgs, migratedOrgs, failedOrgs, orgReq,
                               orgPages>>)
       /\ (pc = "orgReturn" => pc' = "listUsers" /\ orgMap' = orgMap)
       /\ (pc \notin OrgPcs => pc' \notin OrgPcs)
       /\ (caught' = "userPage"
             => /\ pc = "listUsers" /\ pc' = "summary"
                /\ UNCHANGED <<orgMap, totalUsers, migratedUsers, failedUsers, userReq,
                               userPages>>)
       /\ (pc = "summary"
             => /\ pc' = "done"
                /\ summary' = [emitted |-> TRUE, total |-> totalUsers,
                               migrated |-> migratedUsers, failed |-> failedUsers])
       /\ (pc \in {"summary", "done"} => pc' \in {"summary", "done"})
      ]_vars

\* The second organization page failed to load after the first page had filled
\* the mapping: the phase is about to return that mapping.
C5_Witness ==
    /\ caught = "orgPage" /\ pc = "orgReturn"
    /\ orgPages = 1 /\ migratedOrgs >= 1 /\ DOMAIN orgMap # {}

\* ---- C6
\* C6 as stated: a user that reaches the end of the two-factor loop has one
\* twoFactor record per TOTP factor of its auth-factor list.
C6_Original ==
    pc = "twoFactor" /\ fi = Len(authFactors)
      => Count(created, "twoFactor")
           = Cardinality({i \in 1..Len(authFactors) : authFactors[i].type = "totp"})

\* C6 amended: a user that reaches the end of the two-factor loop has one
\* twoFactor record per TOTP factor that carries a totp_configuration, and none
\* for a TOTP factor without one; each record carries that factor's secret and
\* ten backup codes encrypted under it.
C6_Amended ==
    /\ pc = "twoFactor"
         => Count(created, "twoFactor")
              = Cardinality({i \in 1..fi : /\ authFactors[i].type = "totp"
                                            /\ authFactors[i].cfg})
    /\ lastReq.model = "twoFactor" /\ caught = "none"
         => /\ pc = "twoFactor" /\ fi >= 1
            /\ authFactors[fi].type = "totp" /\ authFactors[fi].cfg
            /\ lastReq.userId = createdUser
            /\ lastReq.secret = TotpSecret(fi)
            /\ lastReq.backupCodes = [count |-> 10, key |-> TotpSecret(fi)]

\* A user with a configured and an unconfigured TOTP factor at the end of the
\* two-factor loop, with the one record of the configured factor.
C6_Witness ==
    /\ pc = "twoFactor" /\ fi = Len(authFactors) /\ fi = 2
    /\ \E i \in 1..fi : authFactors[i].type = "totp" /\ authFactors[i].cfg
    /\ \E i \in 1..fi : authFactors[i].type = "totp" /\ ~authFactors[i].cfg
    /\ Count(created, "twoFactor") = 1

\* ---- C7
\* C7: the user create request carries twoFactorEnabled = TRUE exactly when the
\* auth-factor list holds a factor of type "totp", and phoneNumberVerified = TRUE
\* exactly when it holds a factor of type "sms".
C7_TwoFactorEnabledIffTotp ==
    [][pc = "createUser"
         => /\ lastReq'.model = "user"
            /\ lastReq'.id = workosUsers[ui]
            /\ lastReq'.twoFactorEnabled
                 = (Cardinality({i \in 1..Len(authFactors) :
                                   authFactors[i].type = "totp"}) >= 1)
            /\ lastReq'.phoneNumberVerified
                 = (Cardinality({i \in 1..Len(authFactors) :
                                   authFactors[i].type = "sms"}) >= 1)]_vars

\* A user whose only TOTP factor has no configuration was created with
\* twoFactorEnabled set and phoneNumberVerified clear.
C7_Witness ==
    /\ pc = "credentials" /\ lastReq.model = "user"
    /\ lastReq.twoFactorEnabled /\ ~lastReq.phoneNumberVerified
    /\ \A i \in 1..Len(authFactors) : authFactors[i].type = "totp" => ~authFactors[i].cfg

\* ---- C8
\* C8: a member create is issued only for a membership whose organization id is
\* a key of the mapping, with the mapped value as organizationId; a membership
\* whose organization is not in the mapping yields no request; and every key of
\* the mapping is an organization for which a create was issued, mapped to the
\* id of the created record.
C8_MemberRefersToMigratedOrg ==
    /\ [](\A k \in DOMAIN orgMap : k \in OrgIds /\ orgReq[k] >= 1 /\ orgMap[k] = k)
    /\ [][pc = "member"
            => IF membership.organizationId \in DOMAIN orgMap
               THEN lastReq'.model = "member"
                      => /\ lastReq'.organizationId = orgMap[membership.organizationId]
                         /\ lastReq'.userId = createdUser
               ELSE lastReq' = NoReq /\ created' = created /\ error' = "none"]_vars
    /\ [][lastReq'.model = "member" => pc = "member"]_vars

\* A member record was created for an organization of the mapping while another
\* organization of the source is missing from the mapping.
C8_Witness ==
    /\ lastReq.model = "member" /\ caught = "none"
    /\ Count(created, "member") = 1
    /\ lastReq.organizationId \in DOMAIN orgMap
    /\ \E o \in OrgIds : o \notin DOMAIN orgMap

\* ---- C9
\* C9: a membership whose organization is in the mapping and whose role is unset
\* gets a member record with role "member" (unless the organization lookup or
\* the destination create fails).
RoleUnset(role) == ~role.defined \/ role.slug = ""
C9_DefaultRole ==
    [][/\ pc = "member"
       /\ membership.organizationId \in DOMAIN orgMap
       /\ RoleUnset(membership.role)
       /\ error' \notin {"Api", "Adapter"}
         => /\ lastReq'.model = "member"
            /\ lastReq'.role = "member"
            /\ created' = Append(created, "member")]_vars

\* ---- C10
\* C10: while the organization phase runs no user page has been requested; the
\* mapping changes only by a successful organization create, which adds that
\* organization; after the organization phase has returned the run never goes
\* back to it and no step changes the mapping.
C10_PhasesOrderedMapFrozen ==
    /\ [](pc \in OrgPcs
            => /\ userPages = 0 /\ totalUsers = 0
               /\ \A u \in UserIds : userReq[u] = 0)
    /\ [][orgMap' # orgMap
            => /\ pc = "createOrganization"
               /\ caught' = "none" /\ lastReq'.model = "organization"
               /\ DOMAIN orgMap' = DOMAIN orgMap \cup {orgs[oi]}
               /\ \A k \in DOMAIN orgMap : orgMap'[k] = orgMap[k]]_vars
    /\ [][pc \notin OrgPcs => pc' \notin OrgPcs /\ orgMap' = orgMap]_vars

\* The user phase reads a mapping of one organization while the source holds
\* a second organization whose create failed.
C10_Witness ==
    /\ pc = "member" /\ userPages = 1
    /\ Cardinality(DOMAIN orgMap) = 1 /\ nOrgs = 2
\* ---- C11
\* C11: a user create request carries the id of the source user in hand with
\* forceAllowId set, and on success that id is the created user's id; an
\* organization create request carries the id of the source organization in
\* hand with forceAllowId set, and on success the mapping sends that source id to
\* the id of the record just created; every mapping entry is of that kind.
C11_IdentifiersPreserved ==
    /\ [](\A k \in DOMAIN orgMap : k \in OrgIds /\ orgMap[k] = k)
    /\ [](createdUser # NoUser => createdUser = workosUsers[ui])
    /\ [][pc = "createUser"
            => /\ lastReq'.model = "user"
               /\ lastReq'.id = workosUsers[ui]
               /\ lastReq'.id \in UserIds
               /\ lastReq'.forceAllowId
               /\ (caught' = "none" => createdUser' = lastReq'.id)]_vars
    /\ [][pc = "createOrganization"
            => /\ lastReq'.model = "organization"
               /\ lastReq'.id = orgs[oi]
               /\ lastReq'.id \in OrgIds
               /\ lastReq'.forceAllowId
               /\ (caught' = "none"
                     => /\ orgs[oi] \in DOMAIN orgMap'
                        /\ orgMap'[orgs[oi]] = lastReq'.id)]_vars
    /\ [][lastReq'.model \in {"user", "organization"} /\ lastReq' # lastReq
            => pc \in {"createUser", "createOrganization"}]_vars

\* The second user of the source has been created under its own id while the
\* mapping holds the second organization under its own id.
C11_Witness ==
    /\ pc = "credentials" /\ lastReq.model = "user" /\ lastReq.id = 2
    /\ createdUser = 2
    /\ 2 \in DOMAIN orgMap /\ orgMap[2] = 2

\* ---- C12
\* C12: no step after the user create takes a record of that user back: the
\* records created for the user so far only grow by appending, a failing step
\* leaves them as they are, and a failure caught at the user boundary after the
\* user create counts the user in failedUsers with its user record (and every
\* earlier record) still in place.
C12_NoRollback ==
    /\ [](pc \in {"credentials", "oauth", "listMemberships", "member", "twoFactor"}
            => Len(created) >= 1 /\ created[1] = "user")
    /\ [](lastReq.model \in {"none", "organization", "user", "account", "member",
                            "twoFactor"})
    /\ [][(pc \in {"credentials", "oauth", "listMemberships", "member", "twoFactor"})
            => /\ Len(created') >= Len(created)
               /\ SubSeq(created', 1, Len(created)) = created
               /\ Len(created') <= Len(created) + 1
               /\ (error' # "none" => created' = created)
               /\ (caught' = "user"
                     => /\ failedUsers' = failedUsers + 1
                        /\ migratedUsers' = migratedUsers
                        /\ created' = created
                        /\ Head(created') = "user")]_vars

\* A user counted in failedUsers whose user record and credentials account are
\* in the destination without its two-factor record.
C12_Witness ==
    /\ caught = "user" /\ lastReq.model = "twoFactor"
    /\ failedUsers = 1 /\ migratedUsers = 0
    /\ created = <<"user", "credentials">>

\* ---- C13
\* C13: migratedUsers + failedUsers never exceeds totalUsers; while a page is
\* iterated exactly the users before the one in hand have been counted, each
\* step adds at most 1 to at most one of the two counters, and totalUsers grows
\* only by the length of a fetched page; at the summary the two counters add up
\* to totalUsers and the summary prints them.  The organization counters obey
\* the same accounting and the mapping holds at most migratedOrgs entries.
C13_CounterAccounting ==
    /\ [](/\ migratedUsers + failedUsers <= totalUsers
          /\ migratedOrgs + failedOrgs <= totalOrgs)
    /\ [](pc \in UserIterPcs
            => migratedUsers + failedUsers
                 = totalUsers - Len(workosUsers) + (ui - 1))
    /\ [](pc = "createOrganization"
            => migratedOrgs + failedOrgs = totalOrgs - Len(orgs) + (oi - 1))
    /\ [](pc \in {"summary", "done"} => migratedUsers + failedUsers = totalUsers)
    /\ [](pc = "orgReturn" => migratedOrgs + failedOrgs = totalOrgs)
    /\ [](pc \in OrgPcs => Cardinality(DOMAIN orgMap) <= migratedOrgs)
    /\ [](summary.emitted
            => /\ summary.total = totalUsers
               /\ summary.migrated + summary.failed = summary.total)
    /\ [][/\ (pc \in UserIterPcs /\ pc' \notin (UserIterPcs \ {"listAuthFactors"})
                => \/ /\ migratedUsers' = migratedUsers + 1
                      /\ failedUsers' = failedUsers
                   \/ /\ failedUsers' = failedUsers + 1
                      /\ migratedUsers' = migratedUsers)
          /\ (pc \in UserIterPcs /\ pc' \in (UserIterPcs \ {"listAuthFactors"})
                => UNCHANGED <<migratedUsers, failedUsers>>)
          /\ (pc \notin UserIterPcs => UNCHANGED <<migratedUsers, failedUsers>>)
          /\ (pc = "listUsers" /\ caught' = "none"
                => totalUsers' = totalUsers + Len(workosUsers'))
          /\ (pc # "listUsers" \/ caught' # "none" => totalUsers' = totalUsers)
          /\ (pc = "createOrganization"
                => \/ /\ migratedOrgs' = migratedOrgs + 1
                      /\ failedOrgs' = failedOrgs
                   \/ /\ failedOrgs' = failedOrgs + 1
                      /\ migratedOrgs' = migratedOrgs)
          /\ (pc = "listOrganizations" /\ caught' = "none"
                => totalOrgs' = totalOrgs + Len(orgs'))
         ]_vars

\* The summary of a run over a page of two users, one migrated and one failed.
C13_Witness ==
    /\ pc = "done" /\ summary.emitted
    /\ summary.total = 2 /\ summary.migrated = 1 /\ summary.failed = 1
    /\ userPages = 1
====
